---- MODULE Spec2Model ----
(***************************************************************************)
(* Model of server.js: a per-user JSON document store over one directory.  *)
(*                                                                         *)
(* The file system is modelled at the level of the calls the handlers      *)
(* await: a directory maps names to inodes, an inode holds a sequence of   *)
(* chunks, an open file descriptor refers to an inode (not to a name) and  *)
(* keeps its own offset.  fsp.writeFile is open(O_CREAT|O_TRUNC), a loop   *)
(* of writes, close; fsp.readFile is open, a loop of reads up to EOF,      *)
(* close; rename and unlink are single atomic directory updates.  Every    *)
(* await is a point where other requests' steps interleave.                *)
(*                                                                         *)
(* A process crash can happen after any step; nothing is written by a      *)
(* crash itself, so the states a crash can leave behind are exactly the    *)
(* reachable states of this model.                                         *)
(***************************************************************************)
EXTENDS Integers, Sequences, FiniteSets, TLC

\* ------------------------------------------------------------------ bounds
MaxReq == 3          \* requests admitted in one run
MaxConc == 2         \* requests in flight at the same time
MaxChunks == 2       \* chunks of the longest serialized document
MaxRawLen == 2       \* length of the short raw identifiers

\* ------------------------------------------------------- program constants
KeyCap == 64         \* .slice(0, 64)

Procs == 1..MaxConc

\* --------------------------------------------------------------- JS values
\* A JS value: t is its kind, n its magnitude (string length, number value,
\* boolean 0/1, chunks of an object's pretty-printed serialization).
Val(t, id, n) == [t |-> t, id |-> id, n |-> n]
Undefined == Val("undefined", "u", 0)
Null == Val("null", "n", 0)
EmptyObj == Val("object", "E", 1)                 \* {}
Docs == {Val("object", "A", 1), Val("object", "B", MaxChunks)}
NonObjects == {Undefined, Null, Val("string", "s", 13), Val("number", "k", 7),
               Val("boolean", "t", 1)}

\* !v
Falsy(v) == \/ v.t \in {"undefined", "null"}
            \/ v.t \in {"string", "number", "boolean"} /\ v.n = 0

\* typeof v
TypeOf(v) == IF v.t = "null" THEN "object" ELSE v.t

\* dataObj ?? {}
OrEmpty(v) == IF v.t \in {"undefined", "null"} THEN EmptyObj ELSE v

\* JSON.stringify(v, null, 2) of an object, as its sequence of chunks
stringify(v) == [i \in 1..v.n |-> <<v.id, i>>]

\* the body of res.json(null)
NullData == << <<"null", 1>> >>

\* ------------------------------------------------------------ identifiers
\* req.query.user: absent, or a string (a sequence of characters)
User(present, s) == [present |-> present, s |-> s]
NoUser == User(FALSE, << >>)
Users == {NoUser, User(TRUE, << >>), User(TRUE, <<"a">>), User(TRUE, <<"b", "/">>)}

\* mutant: only an absent parameter counts as missing
Missing_undefinedOnly(u) == ~u.present

\* !user
Missing(u) == ~u.present \/ u.s = << >>

Letters == {"a", "b", "c", "d", "e", "f", "g", "h", "i", "j", "k", "l", "m",
            "n", "o", "p", "q", "r", "s", "t", "u", "v", "w", "x", "y", "z"}
Capitals == {"A", "B", "C", "D", "E", "F", "G", "H", "I", "J", "K", "L", "M",
             "N", "O", "P", "Q", "R", "S", "T", "U", "V", "W", "X", "Y", "Z"}
Digits == {"0", "1", "2", "3", "4", "5", "6", "7", "8", "9"}
Kept == Letters \cup Capitals \cup Digits \cup {"_", "-"}

\* mutant: the regular expression without its g flag removes the first match
Strip_firstOnly(s) ==
  IF \A i \in 1..Len(s) : s[i] \in Kept THEN s
  ELSE LET i == CHOOSE k \in 1..Len(s) :
                  s[k] \notin Kept /\ \A j \in 1..(k - 1) : s[j] \in Kept
       IN SubSeq(s, 1, i - 1) \o SubSeq(s, i + 1, Len(s))

RECURSIVE Strip(_)
\* .replace(/[^a-zA-Z0-9_-]/g, '')
Strip(s) == IF s = << >> THEN << >>
            ELSE IF Head(s) \in Kept THEN <<Head(s)>> \o Strip(Tail(s))
            ELSE Strip(Tail(s))

\* mutant: the slice taken before the replace
sanitizeUser_sliceFirst(s) ==
  Strip(SubSeq(s, 1, IF Len(s) < KeyCap THEN Len(s) ELSE KeyCap))

\* String(s || '').replace(...).slice(0, 64)
sanitizeUser(s) == LET r == Strip(s) IN
                   SubSeq(r, 1, IF Len(r) < KeyCap THEN Len(r) ELSE KeyCap)

\* A file name is a sequence of tokens: the characters of the key, then the
\* suffix ".json" (and ".tmp") as one token each.
getUserFile(s) == Append(sanitizeUser(s), ".json")
\* mutant: one temp name for every key
TmpName_shared(file) == <<".tmp">>

\* const tmp = filePath + '.tmp'
TmpName(file) == Append(file, ".tmp")

Keys == {sanitizeUser(u.s) : u \in {v \in Users : ~Missing(v)}}
Files == {Append(k, ".json") : k \in Keys}
StoreNames == Files \cup {TmpName(f) : f \in Files}

\* f.endsWith('.json')
EndsWithJson(f) == Len(f) > 0 /\ f[Len(f)] = ".json"
\* path.basename(f, '.json')
Basename(f) == IF EndsWithJson(f) THEN SubSeq(f, 1, Len(f) - 1) ELSE f

\* Entries the directory may hold that the store did not write: a probe file
\* whose unlink failed at boot, an unrelated file, a subdirectory.
Entry(name, isFile) == [name |-> name, isFile |-> isFile]
Foreign == {Entry(<<".write_probe">>, TRUE), Entry(<<"n", ".txt">>, TRUE),
            Entry(<<"s", ".json">>, FALSE)}

InodeIds == 1..(Cardinality(StoreNames) + MaxConc)

VARIABLES
  dir,        \* StoreNames -> inode id, 0 when the name is absent
  inodes,     \* inode id -> content (sequence of chunks)
  extras,     \* foreign directory entries
  proc,       \* per request slot: the handler's state and its response
  nreq,       \* requests admitted so far
  seen,       \* history: what a reader's key held since the reader started
  lastSaved,  \* history: per key, the document of the last committed write
              \* (Undefined: never written, Null: deleted since)
  boot,       \* the startup probe: its position, and whether SAVE_DIR exists
  san         \* one application of sanitizeUser: its input and its results

vars == <<dir, inodes, extras, proc, nreq, seen, lastSaved, boot, san>>

\* the startup probe has completed
Up == [pc |-> "up", hasDir |-> TRUE]

NoSan == [raw |-> << >>, out |-> << >>, again |-> << >>, stage |-> 0]

Idle == [op |-> "none", user |-> NoUser, body |-> Undefined, pc |-> "idle",
         fd |-> 0, off |-> 0, data |-> << >>, list |-> {}, stats |-> {},
         status |-> 0, msg |-> "", err |-> ""]

Init ==
  /\ dir = [n \in StoreNames |-> 0]
  /\ inodes = [i \in InodeIds |-> << >>]
  /\ extras \in {{}, Foreign}
  /\ proc = [p \in Procs |-> Idle]
  /\ nreq = 0
  /\ seen = [p \in Procs |-> {}]
  /\ lastSaved = [k \in Keys |-> Undefined]
  /\ boot = Up
  /\ san = NoSan

\* ------------------------------------------------------------ file system
Max(a, b) == IF a > b THEN a ELSE b

\* the inodes a directory entry or an open descriptor refers to
Refs(d, pr) == ({d[n] : n \in StoreNames} \cup {pr[p].fd : p \in Procs}) \ {0}

\* an inode nothing refers to any more is released
Collect(ino, d, pr) == [i \in InodeIds |-> IF i \in Refs(d, pr) THEN ino[i] ELSE << >>]

FreshInode == CHOOSE i \in InodeIds :
                /\ i \notin Refs(dir, proc)
                /\ \A j \in InodeIds : j < i => j \in Refs(dir, proc)

Hole == <<"hole", 0>>

\* write(fd, chunk) at position pos (1-based) of content c; a write past the
\* end of a file that was truncated meanwhile leaves a hole before it
WriteAt(c, pos, x) ==
  [i \in 1..Max(Len(c), pos) |-> IF i = pos THEN x
                                 ELSE IF i <= Len(c) THEN c[i] ELSE Hole]

\* what a name holds, as a reader would report it
View(d, ino, f) == IF d[f] = 0 THEN NullData ELSE ino[d[f]]

\* ---------------------------------------------------------------- requests
Busy(p) == proc[p].pc \notin {"idle", "done"}

\* a new request takes the first free slot
Admit(p) == /\ nreq < MaxReq
            /\ ~Busy(p)
            /\ \A q \in Procs : q < p => Busy(q)

Request(op, u, b) == [Idle EXCEPT !.op = op, !.user = u, !.body = b]

\* res.status(status).send(msg) / .json(...)
Reply(r, status, msg, err, data) ==
  [r EXCEPT !.pc = "done", !.fd = 0, !.off = 0, !.status = status, !.msg = msg,
            !.err = err, !.data = data]

File(p) == getUserFile(proc[p].user.s)
KeyOf(p) == sanitizeUser(proc[p].user.s)

\* mutant: the delete handler without its ENOENT case
Catch_noEnoent(op, code) ==
  CASE op = "Save"     -> <<500, "Save failed">>
    [] op = "Load"     -> <<500, "Read failed">>
    [] op = "RawRead"  -> <<404, "Save not found">>
    [] op = "RawWrite" -> <<500, code>>
    [] op = "Delete"   -> <<500, code>>
    [] op = "ListKeys" -> <<500, "Failed to read save directory">>
    [] op = "ListFiles" -> <<500, "Failed to read save directory">>

\* the catch block of each handler
Catch(op, code) ==
  CASE op = "Save"     -> <<500, "Save failed">>
    [] op = "Load"     -> <<500, "Read failed">>
    [] op = "RawRead"  -> <<404, "Save not found">>
    [] op = "RawWrite" -> <<500, code>>
    [] op = "Delete"   -> IF code = "ENOENT" THEN <<404, "Save file not found">>
                          ELSE <<500, code>>
    [] op = "ListKeys" -> <<500, "Failed to read save directory">>
    [] op = "ListFiles" -> <<500, "Failed to read save directory">>

Fail(p, code) ==
  LET c == Catch(proc[p].op, code) IN Reply(proc[p], c[1], c[2], code, << >>)

Writers == {"Save", "RawWrite"}
Readers == {"Load", "RawRead"}

\* readers of file f that started and have not answered yet
Reading(f) == {q \in Procs : proc[q].op \in Readers /\ Busy(q) /\ File(q) = f}

Observed(f, content) == [q \in Procs |-> IF q \in Reading(f) THEN seen[q] \cup {content}
                                         ELSE seen[q]]

\* ------------------------------------------------------------------ writes
\* mutant: only the typeof test, which null passes
ObjectShaped_typeofOnly(v) == TypeOf(v) = "object"

\* newData is acceptable to PUT /api/game/rawsave
ObjectShaped(v) == ~(Falsy(v) \/ TypeOf(v) # "object")

\* POST /api/game/save, up to the first await
SaveRecv(p, u, b) ==
  /\ Admit(p)
  /\ proc' = [proc EXCEPT ![p] =
       IF Missing(u) THEN Reply(Request("Save", u, b), 400, "Missing user", "", << >>)
       ELSE [Request("Save", u, b) EXCEPT !.pc = "open"]]
  /\ nreq' = nreq + 1
  /\ seen' = [seen EXCEPT ![p] = {}]
  /\ UNCHANGED <<dir, inodes, extras, boot, san, lastSaved>>

\* PUT /api/game/rawsave, up to the first await
RawWriteRecv(p, u, b) ==
  /\ Admit(p)
  /\ proc' = [proc EXCEPT ![p] =
       IF Missing(u) THEN Reply(Request("RawWrite", u, b), 400, "Missing user", "", << >>)
       ELSE IF ~ObjectShaped(b)
       THEN Reply(Request("RawWrite", u, b), 400, "Missing or invalid data", "", << >>)
       ELSE [Request("RawWrite", u, b) EXCEPT !.pc = "open"]]
  /\ nreq' = nreq + 1
  /\ seen' = [seen EXCEPT ![p] = {}]
  /\ UNCHANGED <<dir, inodes, extras, boot, san, lastSaved>>

\* the payload atomicWriteJSON writes for request p
Payload(p) == stringify(OrEmpty(proc[p].body))

\* mutant: the temp file is opened without O_TRUNC
OpenTmp_noTrunc(p) ==
  /\ proc[p].pc = "open"
  /\ LET tmp == TmpName(File(p))
         i == IF dir[tmp] # 0 THEN dir[tmp] ELSE FreshInode
     IN /\ dir' = [dir EXCEPT ![tmp] = i]
        /\ proc' = [proc EXCEPT ![p] = [@ EXCEPT !.pc = "write", !.fd = i, !.off = 0]]
  /\ UNCHANGED <<inodes, extras, boot, san, nreq, seen, lastSaved>>

\* fsp.writeFile(tmp, ...): open(tmp, O_WRONLY | O_CREAT | O_TRUNC)
OpenTmp(p) ==
  /\ proc[p].pc = "open"
  /\ LET tmp == TmpName(File(p))
         i == IF dir[tmp] # 0 THEN dir[tmp] ELSE FreshInode
     IN /\ dir' = [dir EXCEPT ![tmp] = i]
        /\ inodes' = [inodes EXCEPT ![i] = << >>]
        /\ proc' = [proc EXCEPT ![p] = [@ EXCEPT !.pc = "write", !.fd = i, !.off = 0]]
  /\ UNCHANGED <<extras, boot, san, nreq, seen, lastSaved>>

\* fsp.writeFile(tmp, ...): one write of the loop; the descriptor is closed
\* after the last one
WriteChunk(p) ==
  /\ proc[p].pc = "write"
  /\ LET r == proc[p]
         last == r.off + 1 = Len(Payload(p))
         pr == [proc EXCEPT ![p] = IF last THEN [r EXCEPT !.pc = "rename", !.fd = 0, !.off = 0]
                                   ELSE [r EXCEPT !.off = r.off + 1]]
     IN /\ proc' = pr
        /\ inodes' = Collect([inodes EXCEPT ![r.fd] = WriteAt(@, r.off + 1, Payload(p)[r.off + 1])],
                             dir, pr)
  /\ UNCHANGED <<dir, extras, boot, san, nreq, seen, lastSaved>>

OkMessage(op) == IF op = "Save" THEN "OK" ELSE "Save file updated."

\* mutant: the temp file is copied to the destination and left in place
Rename_copy(p) ==
  /\ proc[p].pc = "rename"
  /\ LET f == File(p)
         tmp == TmpName(f)
     IN IF dir[tmp] = 0
        THEN /\ proc' = [proc EXCEPT ![p] = Fail(p, "ENOENT")]
             /\ UNCHANGED <<dir, inodes, seen, lastSaved>>
        ELSE LET d == [dir EXCEPT ![f] = dir[tmp]]
                 pr == [proc EXCEPT ![p] = Reply(proc[p], 200, OkMessage(proc[p].op), "", << >>)]
             IN /\ dir' = d
                /\ proc' = pr
                /\ inodes' = Collect(inodes, d, pr)
                /\ seen' = Observed(f, inodes[dir[tmp]])
                /\ lastSaved' = [lastSaved EXCEPT ![KeyOf(p)] = OrEmpty(proc[p].body)]
  /\ UNCHANGED <<extras, boot, san, nreq>>

\* fsp.rename(tmp, filePath), and the handler's answer
Rename(p) ==
  /\ proc[p].pc = "rename"
  /\ LET f == File(p)
         tmp == TmpName(f)
     IN IF dir[tmp] = 0
        THEN /\ proc' = [proc EXCEPT ![p] = Fail(p, "ENOENT")]
             /\ UNCHANGED <<dir, inodes, seen, lastSaved>>
        ELSE LET d == [dir EXCEPT ![f] = dir[tmp], ![tmp] = 0]
                 pr == [proc EXCEPT ![p] = Reply(proc[p], 200, OkMessage(proc[p].op), "", << >>)]
             IN /\ dir' = d
                /\ proc' = pr
                /\ inodes' = Collect(inodes, d, pr)
                /\ seen' = Observed(f, inodes[dir[tmp]])
                /\ lastSaved' = [lastSaved EXCEPT ![KeyOf(p)] = OrEmpty(proc[p].body)]
  /\ UNCHANGED <<extras, boot, san, nreq>>

\* ------------------------------------------------------------------- reads
\* mutant: the load handler without its existence check
LoadRecv_noExists(p, u) ==
  /\ Admit(p)
  /\ proc' = [proc EXCEPT ![p] =
       IF Missing(u) THEN Reply(Request("Load", u, Undefined), 400, "Missing user", "", << >>)
       ELSE [Request("Load", u, Undefined) EXCEPT !.pc = "ropen"]]
  /\ nreq' = nreq + 1
  /\ seen' = [seen EXCEPT ![p] = IF Missing(u) THEN {}
                                 ELSE {View(dir, inodes, getUserFile(u.s))}]
  /\ UNCHANGED <<dir, inodes, extras, boot, san, lastSaved>>

\* GET /api/game/load, up to the first await: fs.existsSync is synchronous
LoadRecv(p, u) ==
  /\ Admit(p)
  /\ proc' = [proc EXCEPT ![p] =
       IF Missing(u) THEN Reply(Request("Load", u, Undefined), 400, "Missing user", "", << >>)
       ELSE IF dir[getUserFile(u.s)] = 0
       THEN Reply(Request("Load", u, Undefined), 200, "", "", NullData)
       ELSE [Request("Load", u, Undefined) EXCEPT !.pc = "ropen"]]
  /\ nreq' = nreq + 1
  /\ seen' = [seen EXCEPT ![p] = IF Missing(u) THEN {}
                                 ELSE {View(dir, inodes, getUserFile(u.s))}]
  /\ UNCHANGED <<dir, inodes, extras, boot, san, lastSaved>>

\* GET /api/game/rawsave, up to the first await
RawReadRecv(p, u) ==
  /\ Admit(p)
  /\ proc' = [proc EXCEPT ![p] =
       IF Missing(u) THEN Reply(Request("RawRead", u, Undefined), 400, "Missing user", "", << >>)
       ELSE [Request("RawRead", u, Undefined) EXCEPT !.pc = "access"]]
  /\ nreq' = nreq + 1
  /\ seen' = [seen EXCEPT ![p] = IF Missing(u) THEN {}
                                 ELSE {View(dir, inodes, getUserFile(u.s))}]
  /\ UNCHANGED <<dir, inodes, extras, boot, san, lastSaved>>

\* fsp.access(filePath, F_OK)
Access(p) ==
  /\ proc[p].pc = "access"
  /\ proc' = [proc EXCEPT ![p] = IF dir[File(p)] = 0 THEN Fail(p, "ENOENT")
                                 ELSE [@ EXCEPT !.pc = "ropen"]]
  /\ UNCHANGED <<dir, inodes, extras, boot, san, nreq, seen, lastSaved>>

\* fsp.readFile(file, 'utf8'): open(file, O_RDONLY)
ReadOpen(p) ==
  /\ proc[p].pc = "ropen"
  /\ proc' = [proc EXCEPT ![p] = IF dir[File(p)] = 0 THEN Fail(p, "ENOENT")
                                 ELSE [@ EXCEPT !.pc = "read", !.fd = dir[File(p)], !.off = 0]]
  /\ UNCHANGED <<dir, inodes, extras, boot, san, nreq, seen, lastSaved>>

\* fsp.readFile(file, 'utf8'): one read of the loop; at end of file the
\* descriptor is closed and the handler answers with what was read
ReadChunk(p) ==
  /\ proc[p].pc = "read"
  /\ LET r == proc[p]
         c == inodes[r.fd]
         pr == [proc EXCEPT ![p] =
                  IF r.off < Len(c)
                  THEN [r EXCEPT !.off = r.off + 1, !.data = Append(r.data, c[r.off + 1])]
                  ELSE Reply(r, 200, "", "", r.data)]
     IN /\ proc' = pr
        /\ inodes' = Collect(inodes, dir, pr)
  /\ UNCHANGED <<dir, extras, boot, san, nreq, seen, lastSaved>>

\* ------------------------------------------------------------------ delete
\* DELETE /api/game/rawsave, up to the first await
DeleteRecv(p, u) ==
  /\ Admit(p)
  /\ proc' = [proc EXCEPT ![p] =
       IF Missing(u) THEN Reply(Request("Delete", u, Undefined), 400, "Missing user", "", << >>)
       ELSE [Request("Delete", u, Undefined) EXCEPT !.pc = "unlink"]]
  /\ nreq' = nreq + 1
  /\ seen' = [seen EXCEPT ![p] = {}]
  /\ UNCHANGED <<dir, inodes, extras, boot, san, lastSaved>>

\* fsp.unlink(filePath), and the handler's answer
Unlink(p) ==
  /\ proc[p].pc = "unlink"
  /\ LET f == File(p) IN
     IF dir[f] = 0
     THEN /\ proc' = [proc EXCEPT ![p] = Fail(p, "ENOENT")]
          /\ UNCHANGED <<dir, inodes, seen, lastSaved>>
     ELSE LET d == [dir EXCEPT ![f] = 0]
              pr == [proc EXCEPT ![p] = Reply(proc[p], 200, "Save file deleted.", "", << >>)]
          IN /\ dir' = d
             /\ proc' = pr
             /\ inodes' = Collect(inodes, d, pr)
             /\ seen' = Observed(f, NullData)
             /\ lastSaved' = [lastSaved EXCEPT ![KeyOf(p)] = Null]
  /\ UNCHANGED <<extras, boot, san, nreq>>

\* -------------------------------------------------------------------- list
\* GET /api/game/list, up to the first await
ListRecv(p) ==
  /\ Admit(p)
  /\ proc' = [proc EXCEPT ![p] = [Request("ListKeys", NoUser, Undefined) EXCEPT !.pc = "readdir"]]
  /\ nreq' = nreq + 1
  /\ seen' = [seen EXCEPT ![p] = {}]
  /\ UNCHANGED <<dir, inodes, extras, boot, san, lastSaved>>

\* fsp.readdir(SAVE_DIR)
DirNames == {n \in StoreNames : dir[n] # 0} \cup {e.name : e \in extras}

\* files.filter(f => f.endsWith('.json')).map(f => path.basename(f, '.json'))
ListedUsers(files) == {Basename(f) : f \in {g \in files : EndsWithJson(g)}}

Readdir(p) ==
  /\ proc[p].pc = "readdir"
  /\ proc' = [proc EXCEPT ![p] = [Reply(proc[p], 200, "", "", << >>)
                                    EXCEPT !.list = ListedUsers(DirNames)]]
  /\ UNCHANGED <<dir, inodes, extras, boot, san, nreq, seen, lastSaved>>

\* ------------------------------------------------------------------- files
\* GET /api/game/files, up to the first await
ListFilesRecv(p) ==
  /\ Admit(p)
  /\ proc' = [proc EXCEPT ![p] = [Request("ListFiles", NoUser, Undefined) EXCEPT !.pc = "readdirF"]]
  /\ nreq' = nreq + 1
  /\ seen' = [seen EXCEPT ![p] = {}]
  /\ UNCHANGED <<dir, inodes, extras, boot, san, lastSaved>>

\* entries.filter(e => e.isFile()), by name
FileNames == {n \in StoreNames : dir[n] # 0} \cup {e.name : e \in {x \in extras : x.isFile}}

\* fsp.readdir(SAVE_DIR, { withFileTypes: true }); the map then starts one
\* fsp.stat per file, and Promise.all of no promise resolves at once
ReaddirFiles(p) ==
  /\ proc[p].pc = "readdirF"
  /\ proc' = [proc EXCEPT ![p] =
       IF FileNames = {} THEN Reply(proc[p], 200, "", "", << >>)
       ELSE [@ EXCEPT !.pc = "stat", !.list = FileNames]]
  /\ UNCHANGED <<dir, inodes, extras, boot, san, nreq, seen, lastSaved>>

\* stat.size of a name that is present
SizeOf(n) == IF n \in StoreNames THEN Len(inodes[dir[n]]) ELSE 1

\* one of the pending fsp.stat calls completes (in any order); the first to
\* reject rejects Promise.all, and the last to resolve resolves it
StatOne(p) ==
  /\ proc[p].pc = "stat"
  /\ \E n \in proc[p].list :
       proc' = [proc EXCEPT ![p] =
         IF n \notin FileNames THEN Fail(p, "ENOENT")
         ELSE LET r == [proc[p] EXCEPT !.list = @ \ {n},
                                       !.stats = @ \cup {<<n, SizeOf(n)>>}]
              IN IF r.list = {} THEN Reply(r, 200, "", "", << >>) ELSE r]
  /\ UNCHANGED <<dir, inodes, extras, boot, san, nreq, seen, lastSaved>>

\* ------------------------------------------------------------------ faults
\* An awaited call on an existing object fails for a reason other than
\* absence (disk full, permission, I/O error); the handler's catch answers.
\* A failed call changes nothing on disk; the descriptor, if any, is closed.
CanFault(p) ==
  \/ proc[p].pc \in {"open", "write", "read", "readdir", "readdirF"}
  \/ proc[p].pc = "rename" /\ dir[TmpName(File(p))] # 0
  \/ proc[p].pc \in {"access", "ropen", "unlink"} /\ dir[File(p)] # 0

IoFault(p) ==
  /\ CanFault(p)
  /\ LET pr == [proc EXCEPT ![p] = Fail(p, "EIO")]
     IN /\ proc' = pr
        /\ inodes' = Collect(inodes, dir, pr)
  /\ UNCHANGED <<dir, extras, boot, san, nreq, seen, lastSaved>>

\* ---------------------------------------------------------- specifications
Step(p) ==
  \/ OpenTmp(p) \/ WriteChunk(p) \/ Rename(p)
  \/ Access(p) \/ ReadOpen(p) \/ ReadChunk(p)
  \/ Unlink(p) \/ Readdir(p) \/ IoFault(p)

ValidUsers == {u \in Users : ~Missing(u)}
Bodies == Docs \cup {Undefined}

\* Requests of well-formed input, handled concurrently.
Next ==
  \/ \E p \in Procs, u \in ValidUsers, b \in Docs : SaveRecv(p, u, b)
  \/ \E p \in Procs, u \in ValidUsers, b \in Docs : RawWriteRecv(p, u, b)
  \/ \E p \in Procs, u \in ValidUsers : LoadRecv(p, u) \/ RawReadRecv(p, u) \/ DeleteRecv(p, u)
  \/ \E p \in Procs : ListRecv(p)
  \/ \E p \in Procs : Step(p)

Spec == Init /\ [][Next]_vars

\* The same, with no two writes of one key in flight together.
NoWriter(u) == \A q \in Procs : ~(Busy(q) /\ proc[q].op \in Writers /\ File(q) = getUserFile(u.s))

NextSerial ==
  \/ \E p \in Procs, u \in ValidUsers, b \in Docs : NoWriter(u) /\ SaveRecv(p, u, b)
  \/ \E p \in Procs, u \in ValidUsers, b \in Docs : NoWriter(u) /\ RawWriteRecv(p, u, b)
  \/ \E p \in Procs, u \in ValidUsers : LoadRecv(p, u) \/ RawReadRecv(p, u) \/ DeleteRecv(p, u)
  \/ \E p \in Procs : ListRecv(p)
  \/ \E p \in Procs : Step(p)

SpecSerial == Init /\ [][NextSerial]_vars

\* Requests of any input, each answered before the next arrives.
Quiet == \A q \in Procs : ~Busy(q)

NextSeq ==
  \/ \E p \in Procs, u \in Users, b \in Bodies : Quiet /\ SaveRecv(p, u, b)
  \/ \E p \in Procs, u \in Users, b \in Docs \cup NonObjects : Quiet /\ RawWriteRecv(p, u, b)
  \/ \E p \in Procs, u \in Users :
       Quiet /\ (LoadRecv(p, u) \/ RawReadRecv(p, u) \/ DeleteRecv(p, u))
  \/ \E p \in Procs : Quiet /\ ListRecv(p)
  \/ \E p \in Procs : Step(p)

SpecSeq == Init /\ [][NextSeq]_vars

\* Requests of well-formed input, those of one key answered one after
\* another, those of different keys handled concurrently.
NoneOn(u) == \A q \in Procs : ~(Busy(q) /\ ~Missing(proc[q].user)
                                 /\ File(q) = getUserFile(u.s))

NextIso ==
  \/ \E p \in Procs, u \in ValidUsers, b \in Docs : NoneOn(u) /\ SaveRecv(p, u, b)
  \/ \E p \in Procs, u \in ValidUsers, b \in Docs : NoneOn(u) /\ RawWriteRecv(p, u, b)
  \/ \E p \in Procs, u \in ValidUsers :
       NoneOn(u) /\ (LoadRecv(p, u) \/ RawReadRecv(p, u) \/ DeleteRecv(p, u))
  \/ \E p \in Procs : ListRecv(p)
  \/ \E p \in Procs : Step(p)

SpecIso == Init /\ [][NextIso]_vars

\* Requests of well-formed input, handled concurrently, on a file system that
\* raises no fault: a call fails only because the name it needs is absent.
StepNoFault(p) ==
  \/ OpenTmp(p) \/ WriteChunk(p) \/ Rename(p)
  \/ Access(p) \/ ReadOpen(p) \/ ReadChunk(p)
  \/ Unlink(p) \/ Readdir(p)

NextNoFault ==
  \/ \E p \in Procs, u \in ValidUsers, b \in Docs : SaveRecv(p, u, b)
  \/ \E p \in Procs, u \in ValidUsers, b \in Docs : RawWriteRecv(p, u, b)
  \/ \E p \in Procs, u \in ValidUsers : LoadRecv(p, u) \/ RawReadRecv(p, u) \/ DeleteRecv(p, u)
  \/ \E p \in Procs : ListRecv(p)
  \/ \E p \in Procs : StepNoFault(p)

SpecNoFault == Init /\ [][NextNoFault]_vars

\* Save, RawWrite and Delete of well-formed input and ListFiles, handled
\* concurrently.
FilesStep(p) ==
  \/ OpenTmp(p) \/ WriteChunk(p) \/ Rename(p) \/ Unlink(p)
  \/ ReaddirFiles(p) \/ StatOne(p) \/ IoFault(p)

NextFiles ==
  \/ \E p \in Procs, u \in ValidUsers, b \in Docs : SaveRecv(p, u, b)
  \/ \E p \in Procs, u \in ValidUsers, b \in Docs : RawWriteRecv(p, u, b)
  \/ \E p \in Procs, u \in ValidUsers : DeleteRecv(p, u)
  \/ \E p \in Procs : ListFilesRecv(p)
  \/ \E p \in Procs : FilesStep(p)

SpecFiles == Init /\ [][NextFiles]_vars

\* ----------------------------------------------------------------- startup
\* The startup probe is an async function that is called and not awaited:
\* app.listen runs while its first call is pending, so requests are admitted
\* from the initial state on.  SAVE_DIR may or may not exist at that point.
Probe == Entry(<<".write_probe">>, TRUE)

InitBoot ==
  /\ dir = [n \in StoreNames |-> 0]
  /\ inodes = [i \in InodeIds |-> << >>]
  /\ extras = {}
  /\ proc = [p \in Procs |-> Idle]
  /\ nreq = 0
  /\ seen = [p \in Procs |-> {}]
  /\ lastSaved = [k \in Keys |-> Undefined]
  /\ boot \in {[pc |-> "mkdir", hasDir |-> h] : h \in BOOLEAN}
  /\ san = NoSan

\* await fsp.mkdir(SAVE_DIR, { recursive: true })
BootMkdir ==
  /\ boot.pc = "mkdir"
  /\ boot' = [pc |-> "probe", hasDir |-> TRUE]
  /\ UNCHANGED <<dir, inodes, extras, proc, nreq, seen, lastSaved, san>>

\* await fsp.writeFile(probe, String(Date.now()), 'utf8')
BootProbeWrite ==
  /\ boot.pc = "probe"
  /\ boot' = [boot EXCEPT !.pc = "unprobe"]
  /\ extras' = extras \cup {Probe}
  /\ UNCHANGED <<dir, inodes, proc, nreq, seen, lastSaved, san>>

\* await fsp.unlink(probe).catch(() => {}): a failure is swallowed
BootProbeUnlink ==
  /\ boot.pc = "unprobe"
  /\ boot' = [boot EXCEPT !.pc = "up"]
  /\ extras' \in {extras \ {Probe}, extras}
  /\ UNCHANGED <<dir, inodes, proc, nreq, seen, lastSaved, san>>

\* mkdir or the probe write rejects: the catch calls process.exit(1)
BootFail ==
  /\ boot.pc \in {"mkdir", "probe"}
  /\ boot' = [boot EXCEPT !.pc = "exited"]
  /\ UNCHANGED <<dir, inodes, extras, proc, nreq, seen, lastSaved, san>>

\* the process is alive: the event loop runs handlers
Serving == boot.pc # "exited"

\* an awaited call under a SAVE_DIR that does not exist
NoDirStep(p) ==
  /\ Busy(p)
  /\ proc' = [proc EXCEPT ![p] = Fail(p, "ENOENT")]
  /\ UNCHANGED <<dir, inodes, extras, boot, san, nreq, seen, lastSaved>>

BootUser == User(TRUE, <<"a">>)
BootDoc == Val("object", "A", 1)

BootStep(p) ==
  \/ OpenTmp(p) \/ WriteChunk(p) \/ Rename(p)
  \/ ReadOpen(p) \/ ReadChunk(p) \/ Readdir(p)

\* The startup probe and the handlers of Save, Load and ListKeys for one key.
NextBoot ==
  \/ BootMkdir \/ BootProbeWrite \/ BootProbeUnlink \/ BootFail
  \/ \E p \in Procs : Serving /\ SaveRecv(p, BootUser, BootDoc)
  \/ \E p \in Procs : Serving /\ LoadRecv(p, BootUser)
  \/ \E p \in Procs : Serving /\ ListRecv(p)
  \/ \E p \in Procs : Serving /\ boot.hasDir /\ BootStep(p)
  \/ \E p \in Procs : Serving /\ ~boot.hasDir /\ NoDirStep(p)

SpecBoot == InitBoot /\ [][NextBoot]_vars

\* ------------------------------------------------------------ sanitizeUser
\* Raw identifiers: every string of at most MaxRawLen characters over letters,
\* digits, both punctuation marks the key keeps, a path separator, a dot, a
\* control character and a non-ASCII character; and the empty string and each
\* single character followed by a run of digits, broken by separators, of
\* about KeyCap characters.
RawChars == {"a", "Z", "7", "_", "-", "/", ".", "U+0007", "U+00E9"}

RECURSIVE Strings(_)
Strings(n) == IF n = 0 THEN {<< >>}
              ELSE LET shorter == Strings(n - 1) IN
                   shorter \cup {Append(t, c) : t \in shorter, c \in RawChars}

DigitSeq == <<"0", "1", "2", "3", "4", "5", "6", "7", "8", "9">>

Fill(n) == [i \in 1..n |-> IF i % (KeyCap \div 2) = 0 THEN "/"
                            ELSE DigitSeq[(i % Len(DigitSeq)) + 1]]

RawIds == Strings(MaxRawLen) \cup
          {t \o Fill(n) : t \in Strings(1), n \in (KeyCap - 1)..(KeyCap + 3)}

InitSan ==
  /\ dir = [n \in StoreNames |-> 0]
  /\ inodes = [i \in InodeIds |-> << >>]
  /\ extras = {}
  /\ proc = [p \in Procs |-> Idle]
  /\ nreq = 0
  /\ seen = [p \in Procs |-> {}]
  /\ lastSaved = [k \in Keys |-> Undefined]
  /\ boot = Up
  /\ san \in {[NoSan EXCEPT !.raw = r] : r \in RawIds}

\* sanitizeUser(raw)
Sanitize ==
  /\ san.stage = 0
  /\ san' = [san EXCEPT !.out = sanitizeUser(san.raw), !.stage = 1]
  /\ UNCHANGED <<dir, inodes, extras, proc, nreq, seen, lastSaved, boot>>

\* sanitizeUser applied to its own result
SanitizeAgain ==
  /\ san.stage = 1
  /\ san' = [san EXCEPT !.again = sanitizeUser(san.out), !.stage = 2]
  /\ UNCHANGED <<dir, inodes, extras, proc, nreq, seen, lastSaved, boot>>

NextSan == Sanitize \/ SanitizeAgain

SpecSan == InitSan /\ [][NextSan]_vars

\* ------------------------------------------------------------------ claims
\* c is the whole serialization of some document
Complete(c) == \E d \in Docs \cup {EmptyObj} : c = stringify(d)

Answered(p, op) == proc[p].op = op /\ proc[p].pc = "done" /\ ~Missing(proc[p].user)

\* request p was admitted by this step
Admitted(p) == nreq' = nreq + 1 /\ proc'[p] # proc[p]

\* this step is one of request p's
StepOf(p) == Busy(p) /\ proc'[p] # proc[p]

\* C1: once N >= 2 concurrent writes of one key have all finished (none hit
\* by an I/O fault), the key's file holds the whole payload of one of them.
C1_FinalIsOnePayload ==
  \A f \in Files :
    ( /\ nreq = Cardinality(Procs)
      /\ \A p \in Procs : /\ proc[p].op \in Writers /\ proc[p].pc = "done"
                          /\ File(p) = f /\ proc[p].err # "EIO" )
    => /\ dir[f] # 0
       /\ inodes[dir[f]] \in {Payload(p) : p \in Procs}

\* C2: in every reachable state, every file at a final path holds the whole
\* serialization of a document; never a partial one.
C2_FinalPathsComplete ==
  \A f \in Files : dir[f] # 0 => Complete(inodes[dir[f]])

\* C3: a Load that races a Save of its key answers with what the key held
\* when the Load started or with what a write committed meanwhile, and that
\* is a whole document (or null); it fails only on an I/O fault or when a
\* Delete raced it.  (It holds under SpecSerial, where the writes of one key
\* do not overlap each other.)
C3_LoadSeesOldOrNew ==
  \A p \in Procs :
    Answered(p, "Load") =>
      \/ /\ proc[p].status = 200 /\ proc[p].data \in seen[p]
         /\ (proc[p].data = NullData \/ Complete(proc[p].data))
      \/ proc[p].status = 500 /\ (proc[p].err = "EIO" \/ NullData \in seen[p])

\* C4: no step of a write before its rename, and no failing rename, changes
\* what the destination holds (so a write that fails or is cut short by a
\* crash leaves the destination as it was).
C4_FailedWriteLeavesDest ==
  [][\A p \in Procs :
       ( /\ StepOf(p) /\ proc[p].op \in Writers
         /\ ~(proc[p].pc = "rename" /\ proc'[p].status = 200) )
       => \A f \in Files : View(dir', inodes', f) = View(dir, inodes, f)]_vars

\* what a Load is expected to answer for a key whose last committed write
\* stored document d
Expected(d) == IF d.t \in {"undefined", "null"} THEN NullData ELSE stringify(d)

\* C5: with requests handled one after another, a Load answers with exactly
\* the document of the last successful Save of its key (or fails on an I/O
\* fault): nothing of an earlier document remains.
C5_LoadReturnsLastSave ==
  \A p \in Procs :
    Answered(p, "Load") =>
      \/ proc[p].status = 200 /\ proc[p].data = Expected(lastSaved[KeyOf(p)])
      \/ proc[p].status = 500 /\ proc[p].err = "EIO"

\* C5 witness: a Load answered with the short document A, third request of
\* the run, for a key that has been written.
C5_Witness ==
  \E p \in Procs :
    /\ Answered(p, "Load") /\ proc[p].status = 200 /\ nreq = MaxReq
    /\ lastSaved[KeyOf(p)].id = "A"
    /\ proc[p].data = <<<<"A", 1>>>>

\* C6: a Load of a key whose file is absent when the request arrives answers
\* 200 null at once and changes nothing in the store.
C6_LoadAbsentIsNull ==
  [][\A p \in Procs :
       ( /\ Admitted(p) /\ proc'[p].op = "Load" /\ ~Missing(proc'[p].user)
         /\ dir[getUserFile(proc'[p].user.s)] = 0 )
       => /\ proc'[p].pc = "done" /\ proc'[p].status = 200
          /\ proc'[p].data = NullData /\ proc'[p].err = ""
          /\ dir' = dir /\ inodes' = inodes]_vars

\* C6 witness: a Load answered null for a key that was saved and then deleted.
C6_Witness ==
  \E p \in Procs :
    /\ Answered(p, "Load") /\ proc[p].status = 200 /\ proc[p].data = NullData
    /\ lastSaved[KeyOf(p)] = Null

\* C7: the unlink step of a Delete answers 404 and changes nothing when the
\* file is absent; when it is present it removes that name only and answers
\* 200, unless the unlink itself fails (500), which changes nothing.
C7_DeleteOutcome ==
  [][\A p \in Procs :
       (StepOf(p) /\ proc[p].op = "Delete") =>
         LET f == File(p) IN
         IF dir[f] = 0
         THEN /\ proc'[p].status = 404 /\ proc'[p].pc = "done"
              /\ dir' = dir /\ inodes' = inodes
         ELSE \/ /\ proc'[p].status = 200 /\ proc'[p].pc = "done"
                 /\ dir' = [dir EXCEPT ![f] = 0]
                 /\ \A n \in StoreNames \ {f} : View(dir', inodes', n) = View(dir, inodes, n)
              \/ /\ proc'[p].status = 500 /\ proc'[p].err = "EIO"
                 /\ dir' = dir /\ inodes' = inodes]_vars

\* C7 witness: two Deletes of one key answered, one 200 and one 404.
C7_Witness ==
  \E p, q \in Procs :
    /\ Answered(p, "Delete") /\ Answered(q, "Delete") /\ File(p) = File(q)
    /\ proc[p].status = 200 /\ proc[q].status = 404

\* C8: with no write in progress, a successful ListKeys answers with exactly
\* the keys that have a document.
C8_ListIsExactlyTheKeys ==
  [][\A p \in Procs :
       ( /\ StepOf(p) /\ proc[p].op = "ListKeys" /\ proc'[p].status = 200
         /\ \A q \in Procs : ~(Busy(q) /\ proc[q].op \in Writers) )
       => proc'[p].list = {k \in Keys : dir[Append(k, ".json")] # 0}]_vars

\* C9: a Load never answers 500 unless a call of its own failed with an I/O
\* fault; in particular not when a Delete removes the file under it.
C9_LoadNeverFailsOnDelete ==
  \A p \in Procs :
    (Answered(p, "Load") /\ proc[p].err # "EIO") => proc[p].status = 200

\* C10: a RawWrite whose payload is absent, null, a string, a number or a
\* boolean is answered 400 'Missing or invalid data' at once, with no change
\* to the store.
C10_RawWriteRejectsNonObjects ==
  [][\A p \in Procs :
       ( /\ Admitted(p) /\ proc'[p].op = "RawWrite" /\ ~Missing(proc'[p].user)
         /\ proc'[p].body \in NonObjects )
       => /\ proc'[p].pc = "done" /\ proc'[p].status = 400
          /\ proc'[p].msg = "Missing or invalid data"
          /\ dir' = dir /\ inodes' = inodes]_vars

\* C10 witness: a RawWrite of null answered 400 'Missing or invalid data'.
C10_Witness ==
  \E p \in Procs :
    /\ Answered(p, "RawWrite") /\ proc[p].body = Null
    /\ proc[p].status = 400 /\ proc[p].msg = "Missing or invalid data"

\* the operations that take a user identifier
KeyedOps == {"Save", "Load", "RawRead", "RawWrite", "Delete"}

\* C11: a keyed operation (Save, Load, RawRead, RawWrite, Delete) whose user
\* identifier is absent or the empty string is answered 400 in the step that
\* admits it: it never reaches a file system call, and the store is unchanged.
C11_MissingUserIs400 ==
  [][\A p \in Procs :
       ( /\ Admitted(p) /\ proc'[p].op \in KeyedOps
         /\ (~proc'[p].user.present \/ proc'[p].user.s = << >>) )
       => /\ proc'[p].pc = "done" /\ proc'[p].status = 400
          /\ proc'[p].msg = "Missing user" /\ proc'[p].fd = 0
          /\ dir' = dir /\ inodes' = inodes /\ extras' = extras]_vars

\* C11 witness: a Delete with the empty string as user answered 400, after a
\* Save that stored a document which is still there.
C11_Witness ==
  \E p \in Procs :
    /\ proc[p].op = "Delete" /\ proc[p].pc = "done"
    /\ proc[p].user = User(TRUE, << >>) /\ proc[p].status = 400
    /\ \E f \in Files : dir[f] # 0

\* the positions of r whose character the key keeps
Retained(r) == {i \in 1..Len(r) : r[i] \in Kept}

\* the position in r of its j-th retained character
NthRetained(r, j) ==
  CHOOSE i \in Retained(r) : Cardinality({k \in Retained(r) : k <= i}) = j

\* C12: for every raw identifier r (empty, or with path separators, dots,
\* control or non-ASCII characters), sanitizeUser(r) has only characters of
\* [A-Za-z0-9_-], has length at most 64, and is the first 64 retained
\* characters of r in their order in r.
C12_SanitizeIsFirst64Retained ==
  san.stage >= 1 =>
    LET r == san.raw
        out == san.out
        n == Cardinality(Retained(r))
    IN /\ \A i \in 1..Len(out) : out[i] \in Kept
       /\ Len(out) <= 64
       /\ Len(out) = (IF n < 64 THEN n ELSE 64)
       /\ \A j \in 1..Len(out) : out[j] = r[NthRetained(r, j)]
       /\ (r = << >> => out = << >>)

\* C12 witness: an identifier with a path separator, and a rejected character
\* among its first 64, cut to exactly 64 characters with retained ones left
\* over.
C12_Witness ==
  /\ san.stage >= 1
  /\ Len(san.raw) > 0 /\ san.raw[1] = "/"
  /\ Cardinality(Retained(san.raw)) > 64
  /\ Len(san.out) = 64

\* C13: sanitizeUser is idempotent, sanitizeUser(sanitizeUser(r)) equals
\* sanitizeUser(r) for every raw identifier r, so getUserFile gives r and
\* sanitizeUser(r) the same path.
C13_SanitizeIdempotent ==
  san.stage = 2 =>
    /\ san.again = san.out
    /\ getUserFile(san.out) = getUserFile(san.raw)

\* C13 witness: applied twice to an identifier with two rejected characters,
\* whose key is not empty.
C13_Witness ==
  /\ san.stage = 2
  /\ Len(san.raw) - Cardinality(Retained(san.raw)) >= 2
  /\ san.out # << >> /\ san.out # san.raw

\* C14: no handler runs a store operation (an awaited file system call, or
\* the existence test of Load) before the startup probe has completed, and
\* once the startup probe has failed no handler runs at all.
C14_StartupPrecedesRequests ==
  [][/\ \A p \in Procs :
          (StepOf(p) \/ (Admitted(p) /\ proc'[p].op = "Load")) => boot.pc = "up"
     /\ (boot.pc = "exited" => proc' = proc)]_vars

\* the names of the store that are not <k>.json or <k>.json.tmp
NamesOfOthers(k) ==
  {n \in StoreNames : n # Append(k, ".json") /\ n # Append(Append(k, ".json"), ".tmp")}

\* the answer of request r, given that its key's last committed write stored
\* document d, depends on nothing else but a fault of one of its own calls
OwnResult(r, d) ==
  \/ r.err = "EIO" /\ r.status \in {404, 500}
  \/ /\ r.err # "EIO"
     /\ CASE r.op = "Load"    -> r.status = 200 /\ r.data = Expected(d)
          [] r.op = "RawRead" -> IF d.t = "object"
                                 THEN r.status = 200 /\ r.data = stringify(d)
                                 ELSE r.status = 404
          [] r.op = "Delete"  -> r.status = (IF d.t = "object" THEN 200 ELSE 404)
          [] r.op \in Writers -> r.status = 200

\* C15: operations on different keys are independent.  No step of an
\* operation on key k creates, changes or removes the file or the temp file
\* of another key; and with the operations of each key answered in turn, the
\* answer of an operation depends only on what was last written to its own
\* key, however the operations on the other key interleave with it, and a
\* successful write leaves its key holding its own payload.
C15_KeysAreIndependent ==
  [][\A p \in Procs :
       ( /\ StepOf(p) \/ Admitted(p)
         /\ proc'[p].op \in KeyedOps /\ proc'[p].user.present /\ proc'[p].user.s # << >> )
       => LET k == sanitizeUser(proc'[p].user.s) IN
          /\ \A n \in NamesOfOthers(k) :
               dir'[n] = dir[n] /\ View(dir', inodes', n) = View(dir, inodes, n)
          /\ \A j \in Keys \ {k} : lastSaved'[j] = lastSaved[j]
          /\ proc'[p].pc = "done" =>
               /\ OwnResult(proc'[p], lastSaved[k])
               /\ (proc'[p].op \in Writers /\ proc'[p].status = 200) =>
                    View(dir', inodes', Append(k, ".json")) = Payload(p)]_vars

\* C15 witness: a Load of one key answered with its document while a Save of
\* the other key is between its temp write and its rename.
C15_Witness ==
  \E p, q \in Procs :
    /\ Answered(p, "Load") /\ proc[p].status = 200 /\ Complete(proc[p].data)
    /\ proc[q].op = "Save" /\ proc[q].pc = "rename" /\ File(q) # File(p)
    /\ dir[TmpName(File(q))] # 0

\* C16: RawRead and Load differ only in how they report absence.  With
\* requests handled one after another, a RawRead of a key that holds a
\* document answers what a Load answers (200 and the document); of a key that
\* holds none it answers 404 where a Load answers null; and when a call on
\* the existing file fails it answers as the Load handler does (500).
C16_RawReadDiffersOnlyOnAbsence ==
  \A p \in Procs :
    Answered(p, "RawRead") =>
      LET d == lastSaved[KeyOf(p)] IN
      CASE proc[p].err = "EIO"    -> proc[p].status = Catch("Load", "EIO")[1]
        [] proc[p].err = "ENOENT" -> proc[p].status = 404 /\ d.t # "object"
        [] OTHER                  -> /\ proc[p].status = 200 /\ d.t = "object"
                                     /\ proc[p].data = Expected(d)

\* C17: the rename is the commit point of a write.  Right after the rename
\* step of a Save or RawWrite that answers 200, the key's file holds exactly
\* the payload of that request, whatever other writes of the key overlap it.
\* (It holds under SpecSerial, where the writes of one key do not overlap.)
C17_RenameCommitsOwnPayload ==
  [][\A p \in Procs :
       ( /\ StepOf(p) /\ proc[p].op \in Writers
         /\ proc[p].pc = "rename" /\ proc'[p].status = 200 )
       => View(dir', inodes', File(p)) = Payload(p)]_vars

\* C18: ListFiles answers 500 only when its read of the directory failed;
\* in particular not when a file it enumerated was renamed away or unlinked
\* before that file's stat.
C18_ListFilesFailsOnlyOnReaddir ==
  \A p \in Procs :
    (proc[p].op = "ListFiles" /\ proc[p].pc = "done")
    => \/ proc[p].status = 200
       \/ proc[p].status = 500 /\ proc[p].err = "EIO" /\ proc[p].list = {}

\* C19: on a file system that raises no fault, every Save and every RawWrite
\* of a valid payload answers 200, whatever other writes of its key overlap
\* it.
C19_WriteSucceedsWithoutFault ==
  \A p \in Procs :
    (proc[p].op \in Writers /\ proc[p].pc = "done" /\ ~Missing(proc[p].user))
    => proc[p].status = 200 /\ proc[p].err = ""

\* C20: temp files are transient.  On a file system that raises no fault,
\* in every state where no Save or RawWrite is in progress the directory
\* holds no <key>.json.tmp, after any number of sequential or overlapping
\* writes.
C20_NoTmpWhenNoWriter ==
  (\A q \in Procs : ~(Busy(q) /\ proc[q].op \in Writers))
  => \A f \in Files : dir[TmpName(f)] = 0

\* C20 witness: all requests of the run admitted, two overlapping writes of
\* one key both answered 200, no write in progress, the key's file present
\* and no temp file left.
C20_Witness ==
  /\ nreq = MaxReq
  /\ \A q \in Procs : /\ proc[q].op \in Writers /\ proc[q].pc = "done"
                      /\ proc[q].status = 200
  /\ \E f \in Files : /\ \A q \in Procs : File(q) = f
                      /\ dir[f] # 0
  /\ \A f \in Files : dir[TmpName(f)] = 0

====
